---- MODULE Spec2Model ----
(***************************************************************************)
(* Model of capy-search: the message-driven state machine of App           *)
(* (src/main.rs), the view it renders and the palette table of the theme   *)
(* (src/styles/modern.rs).                                                 *)
(*                                                                         *)
(* A Rust String is modelled as a sequence of one-character strings, so    *)
(* that trim() is computed character by character.  A Vec<String> is a     *)
(* sequence of such strings; Rust's 0-based indices are kept in messages   *)
(* and converted at the point of access.                                   *)
(***************************************************************************)
EXTENDS Integers, Sequences, FiniteSets, TLC

\* Longest query text the environment types.
MaxLen == 2
\* Longest history the model lets Submit build.
MaxHist == 3

\* The characters the environment types: one letter and one whitespace.
Chars == {"a", " "}
WhiteSpace == {" "}

Strings == UNION {[1..n -> Chars] : n \in 0..MaxLen}

\* The tag names the view attaches to its three tag buttons.
TagNames == {"overflow", "exchange", "geeks"}

-----------------------------------------------------------------------------
(* Strings and vectors                                                     *)

String_new == <<>>

Vec_new == <<>>

is_empty(s) == Len(s) = 0

RECURSIVE trim_start(_)
trim_start(s) ==
    IF s # <<>> /\ Head(s) \in WhiteSpace THEN trim_start(Tail(s)) ELSE s

RECURSIVE trim_end(_)
trim_end(s) ==
    IF s # <<>> /\ s[Len(s)] \in WhiteSpace
    THEN trim_end(SubSeq(s, 1, Len(s) - 1))
    ELSE s

\* str::trim: leading and trailing whitespace removed, interior kept.
trim(s) == trim_end(trim_start(s))

\* Vec::insert(index, element), index 0-based, index <= len.
Vec_insert(v, index, element) ==
    SubSeq(v, 1, index) \o <<element>> \o SubSeq(v, index + 1, Len(v))

\* Variant of Vec_remove: Vec::swap_remove, which fills the hole with the
\* last element instead of shifting.
Vec_swap_remove(v, index) ==
    IF index + 1 = Len(v)
    THEN SubSeq(v, 1, Len(v) - 1)
    ELSE SubSeq(v, 1, index) \o <<v[Len(v)]>>
         \o SubSeq(v, index + 2, Len(v) - 1)

\* Vec::remove(index), index 0-based, index < len: the later elements shift
\* down by one.
Vec_remove(v, index) ==
    SubSeq(v, 1, index) \o SubSeq(v, index + 2, Len(v))

-----------------------------------------------------------------------------
(* Theme and palette table                                                 *)

ModernTheme == {"Dark", "Light"}

ModernPalette_DARK ==
    [buttons |-> [text |-> <<255, 255, 255, 100>>,
                  principal |-> <<253, 213, 193, 100>>,
                  secondary |-> <<82, 89, 96, 100>>,
                  tag |-> <<82, 89, 96, 100>>],
     inputs |-> [background |-> <<39, 38, 47, 100>>,
                 border_color |-> <<60, 60, 60, 30>>,
                 icon_color |-> <<90, 90, 90, 100>>,
                 placeholder_text |-> <<100, 100, 100, 60>>,
                 text |-> <<233, 233, 233, 100>>,
                 disabled_color |-> <<60, 60, 60, 60>>,
                 disabled |-> <<60, 60, 60, 60>>],
     toggler |-> [background |-> <<33, 35, 37, 100>>,
                  foreground |-> <<60, 60, 60, 100>>],
     app |-> [background |-> <<31, 30, 37, 100>>,
              text |-> <<250, 250, 242, 100>>]]

ModernPalette_LIGHT ==
    [buttons |-> [text |-> <<255, 255, 255, 100>>,
                  principal |-> <<51, 88, 219, 100>>,
                  secondary |-> <<82, 89, 96, 100>>,
                  tag |-> <<51, 245, 106, 100>>],
     inputs |-> [background |-> <<250, 250, 242, 100>>,
                 border_color |-> <<60, 60, 60, 30>>,
                 icon_color |-> <<90, 90, 90, 100>>,
                 placeholder_text |-> <<60, 60, 60, 60>>,
                 text |-> <<90, 90, 90, 100>>,
                 disabled_color |-> <<60, 60, 60, 60>>,
                 disabled |-> <<60, 60, 60, 60>>],
     toggler |-> [background |-> <<250, 250, 250, 100>>,
                  foreground |-> <<60, 60, 60, 30>>],
     app |-> [background |-> <<250, 250, 242, 100>>,
              text |-> <<33, 35, 37, 100>>]]

palette(self_theme) ==
    IF self_theme = "Dark" THEN ModernPalette_DARK ELSE ModernPalette_LIGHT

-----------------------------------------------------------------------------
(* Colours.  An f32 channel is modelled as the exact fraction <<n, d>> in  *)
(* lowest terms, so that equal colours are equal values; rounding of the   *)
(* f32 operations is not modelled.                                         *)

RECURSIVE GCD(_, _)
GCD(m, n) == IF n = 0 THEN m ELSE GCD(n, m % n)

\* The fraction n / d, d > 0, in lowest terms.
Frac(n, d) == <<n \div GCD(n, d), d \div GCD(n, d)>>

\* The product of two fractions.
FracMul(x, y) == Frac(x[1] * y[1], x[2] * y[2])

Color_from_rgba(r, g, b, a) == [r |-> r, g |-> g, b |-> b, a |-> a]

Color_TRANSPARENT == Color_from_rgba(Frac(0, 1), Frac(0, 1), Frac(0, 1), Frac(0, 1))

\* The color! macro with three 8-bit channels: each over 255, opaque.
color_rgb8(r, g, b) ==
    Color_from_rgba(Frac(r, 255), Frac(g, 255), Frac(b, 255), Frac(1, 1))

\* PaletteConversor::from_rgba: channels over 255, alpha over 100.
from_rgba(r, g, b, a) ==
    Color_from_rgba(Frac(r, 255), Frac(g, 255), Frac(b, 255), Frac(a, 100))

\* PaletteConversor::from_rgb: channels over 255, alpha 1.0.
from_rgb(r, g, b) ==
    Color_from_rgba(Frac(r, 255), Frac(g, 255), Frac(b, 255), Frac(1, 1))

\* The palette accessors: the stored RGBA tuple converted by from_rgba.
palette_color(t) == from_rgba(t[1], t[2], t[3], t[4])

-----------------------------------------------------------------------------
(* Style sheets of ModernTheme                                             *)

\* trait Properties
BORDER_WIDTH == 0

\* A button style: the variant and, for Tag, its accent (a filler for the
\* other variants).
ModernButton_Principal == [variant |-> "Principal", color |-> <<0, 0, 0>>]
ModernButton_Secondary == [variant |-> "Secondary", color |-> <<0, 0, 0>>]
ModernButton_Text == [variant |-> "Text", color |-> <<0, 0, 0>>]
ModernButton_Tag(color) == [variant |-> "Tag", color |-> color]

\* button::Appearance::default()
button_Appearance_default ==
    [shadow_offset |-> <<0, 0>>,
     has_background |-> FALSE,
     background |-> Color_TRANSPARENT,
     border_radius |-> 0,
     border_width |-> 0,
     border_color |-> Color_TRANSPARENT,
     text_color |-> color_rgb8(0, 0, 0)]

\* Variant of button_active: Tag takes its background from the palette.
button_active_paletteTag(self_theme, style) ==
    [button_Appearance_default EXCEPT
        !.has_background = TRUE,
        !.background = palette_color(palette(self_theme).buttons.tag),
        !.border_radius = 100,
        !.text_color = palette_color(palette(self_theme).buttons.text)]

button_active(self_theme, style) ==
    CASE style.variant = "Principal" ->
            [button_Appearance_default EXCEPT
                !.has_background = TRUE,
                !.background =
                    palette_color(palette(self_theme).buttons.principal),
                !.border_radius = 100,
                !.border_width = BORDER_WIDTH,
                !.border_color = Color_TRANSPARENT,
                !.text_color = color_rgb8(255, 110, 1)]
      [] style.variant = "Secondary" ->
            [button_Appearance_default EXCEPT
                !.has_background = TRUE,
                !.background =
                    palette_color(palette(self_theme).buttons.secondary),
                !.border_radius = 100,
                !.border_width = BORDER_WIDTH,
                !.border_color = Color_TRANSPARENT,
                !.text_color = palette_color(palette(self_theme).buttons.text)]
      [] style.variant = "Tag" ->
            [button_Appearance_default EXCEPT
                !.has_background = TRUE,
                !.background =
                    from_rgb(style.color[1], style.color[2], style.color[3]),
                !.border_radius = 100,
                !.border_width = 0,
                !.border_color = Color_TRANSPARENT,
                !.text_color = palette_color(palette(self_theme).buttons.text)]
      [] style.variant = "Text" ->
            [button_Appearance_default EXCEPT
                !.has_background = TRUE,
                !.background = Color_TRANSPARENT,
                !.border_radius = 100,
                !.text_color = palette_color(palette(self_theme).buttons.text)]

button_hovered(self_theme, style) ==
    IF style.variant = "Secondary"
    THEN button_active(self_theme, ModernButton_Principal)
    ELSE button_active(self_theme, style)

\* A colour with r, g and b multiplied by 0.7 and its alpha kept.
darken(color) ==
    [color EXCEPT !.r = FracMul(@, Frac(7, 10)),
                  !.g = FracMul(@, Frac(7, 10)),
                  !.b = FracMul(@, Frac(7, 10))]

\* Variant of button_pressed: the alpha is multiplied too.
button_pressed_alpha(self_theme, style) ==
    LET active == button_hovered(self_theme, style) IN
    [active EXCEPT
        !.shadow_offset = <<0, 0>>,
        !.background = [darken(@) EXCEPT !.a = FracMul(@, Frac(7, 10))],
        !.text_color = [darken(@) EXCEPT !.a = FracMul(@, Frac(7, 10))]]

button_pressed(self_theme, style) ==
    LET active == IF style.variant = "Secondary"
                  THEN button_active(self_theme, ModernButton_Principal)
                  ELSE button_active(self_theme, style)
    IN  [active EXCEPT
            !.shadow_offset = <<0, 0>>,
            !.background = IF active.has_background THEN darken(@) ELSE @,
            !.text_color = darken(@)]

scrollable_active(self_theme) ==
    [background |-> palette_color(palette(self_theme).buttons.secondary),
     border_radius |-> 90,
     border_width |-> 2,
     border_color |-> Color_TRANSPARENT,
     scroller |->
        [color |-> palette_color(palette(self_theme).inputs.placeholder_text),
         border_radius |-> 90,
         border_width |-> 2,
         border_color |-> Color_TRANSPARENT]]

\* Variant of scrollable_hovered: the hovered track keeps the active
\* track's colour.
scrollable_hovered_sameTrack(self_theme) ==
    [scrollable_active(self_theme) EXCEPT
        !.scroller.color = palette_color(palette(self_theme).buttons.principal)]

scrollable_hovered(self_theme) ==
    [background |-> palette_color(palette(self_theme).inputs.placeholder_text),
     border_radius |-> 90,
     border_width |-> 2,
     border_color |-> Color_TRANSPARENT,
     scroller |->
        [color |-> palette_color(palette(self_theme).buttons.principal),
         border_radius |-> 90,
         border_width |-> 2,
         border_color |-> Color_TRANSPARENT]]

-----------------------------------------------------------------------------
(* Messages                                                                *)

\* Every message carries all payload fields; the ones its variant does not
\* have hold a fixed filler.
Msg(type, text, tag, state, id) ==
    [type |-> type, text |-> text, tag |-> tag, state |-> state, id |-> id]

Message_OnPressing == Msg("OnPressing", <<>>, "", FALSE, 0)
Message_TagSelected(tag) == Msg("TagSelected", <<>>, tag, FALSE, 0)
Message_QueryChange(query) == Msg("QueryChange", query, "", FALSE, 0)
Message_OnChangingTheme(state) == Msg("OnChangingTheme", <<>>, "", state, 0)
Message_SetSearch(query) == Msg("SetSearch", query, "", FALSE, 0)
Message_RemoveSearch(id) == Msg("RemoveSearch", <<>>, "", FALSE, id)

\* The filler "last message" of the initial state: nothing consumed yet.
Message_None == Msg("None", <<>>, "", FALSE, 0)

-----------------------------------------------------------------------------
(* State                                                                   *)

VARIABLES
    theme,      \* App.theme
    toggler,    \* App.toggler
    inputs,     \* App.inputs: [query, enabled]
    searches,   \* App.searches, most recent first
    status,     \* "ready", or "panicked" once update has panicked
    last,       \* the message update consumed last and the App it was given
    drawn       \* the widget the renderer resolved last and its appearance

vars == <<theme, toggler, inputs, searches, status, last, drawn>>

\* The App record made of the four state variables.
App == [theme |-> theme, toggler |-> toggler, inputs |-> inputs,
        searches |-> searches]

\* Nothing resolved yet.
Drawn_None == [widget |-> "none"]

App_new ==
    [theme |-> "Dark",
     toggler |-> FALSE,
     inputs |-> [query |-> String_new, enabled |-> TRUE],
     searches |-> Vec_new]

Init ==
    /\ theme = App_new.theme
    /\ toggler = App_new.toggler
    /\ inputs = App_new.inputs
    /\ searches = App_new.searches
    /\ status = "ready"
    /\ last = [msg |-> Message_None, pre |-> App_new]
    /\ drawn = Drawn_None

-----------------------------------------------------------------------------
(* App::update, one operator per match arm.  Each takes the App record and *)
(* the message's payload and gives the App record update leaves behind.    *)
(* println! writes to the process's standard output, which is no part of   *)
(* App, so the arms that only print leave the record as it was.            *)

\* Variant of update_OnPressing: the guard tests the query as typed, not
\* the trimmed one.
update_OnPressing_rawGuard(self) ==
    IF ~is_empty(self.inputs.query)
    THEN [self EXCEPT !.searches = Vec_insert(@, 0, trim(self.inputs.query))]
    ELSE self

\* Variant of update_OnPressing: the entry is pushed at the back.
update_OnPressing_push(self) ==
    IF ~is_empty(trim(self.inputs.query))
    THEN [self EXCEPT !.searches =
              Vec_insert(@, Len(@), trim(self.inputs.query))]
    ELSE self

\* Variant of update_OnPressing: a blank submit clears the input field.
update_OnPressing_clear(self) ==
    IF ~is_empty(trim(self.inputs.query))
    THEN [self EXCEPT !.searches = Vec_insert(@, 0, trim(self.inputs.query))]
    ELSE [self EXCEPT !.inputs.query = String_new]

update_OnPressing(self) ==
    IF ~is_empty(trim(self.inputs.query))
    THEN [self EXCEPT !.searches = Vec_insert(@, 0, trim(self.inputs.query))]
    ELSE self

\* Variant of update_OnChangingTheme: the theme is flipped from what it
\* was instead of being set from the flag.
update_OnChangingTheme_flip(self, state) ==
    [self EXCEPT !.toggler = state,
                 !.theme = IF self.theme = "Dark" THEN "Light" ELSE "Dark"]

update_OnChangingTheme(self, state) ==
    [self EXCEPT !.toggler = state,
                 !.theme = IF state THEN "Light" ELSE "Dark"]

\* Variant of update_QueryChange: the App is rebuilt around the new query
\* and the history, the other fields taken from App::new.
update_QueryChange_rebuild(self, query) ==
    [App_new EXCEPT !.inputs.query = query, !.searches = self.searches]

update_QueryChange(self, query) == [self EXCEPT !.inputs.query = query]

\* Variant of update_SetSearch: the text is trimmed before it is stored.
update_SetSearch_trimmed(self, query) ==
    [self EXCEPT !.inputs.query = trim(query)]

update_SetSearch(self, query) == [self EXCEPT !.inputs.query = query]

\* Variant of update_TagSelected: selecting a tag clears the input field.
update_TagSelected_clear(self, tag) ==
    [self EXCEPT !.inputs.query = String_new]

update_TagSelected(self, tag) == self

\* Variant of update_RemoveSearch: a checked removal that ignores an index
\* out of range.
update_RemoveSearch_checked(self, id) ==
    IF id >= Len(self.searches)
    THEN [panicked |-> FALSE, self |-> self]
    ELSE [panicked |-> FALSE,
          self |-> [self EXCEPT !.searches = Vec_remove(@, id)]]

\* self.searches[id] panics when id is out of range, before anything is
\* removed; the result says whether update panicked and what App holds then.
update_RemoveSearch(self, id) ==
    IF id >= Len(self.searches)
    THEN [panicked |-> TRUE, self |-> self]
    ELSE [panicked |-> FALSE,
          self |-> [self EXCEPT !.searches = Vec_remove(@, id)]]

-----------------------------------------------------------------------------
(* Actions: the runtime hands update one message at a time.  A panic in    *)
(* update unwinds out of the event loop and ends the process: nothing is   *)
(* delivered afterwards.                                                   *)

Deliver(message, panicked, new) ==
    /\ status = "ready"
    /\ Len(new.searches) <= MaxHist
    /\ last' = [msg |-> message, pre |-> App]
    /\ status' = IF panicked THEN "panicked" ELSE "ready"
    /\ theme' = new.theme
    /\ toggler' = new.toggler
    /\ inputs' = new.inputs
    /\ searches' = new.searches
    /\ UNCHANGED drawn

OnPressing == Deliver(Message_OnPressing, FALSE, update_OnPressing(App))

OnChangingTheme(state) ==
    Deliver(Message_OnChangingTheme(state), FALSE,
            update_OnChangingTheme(App, state))

QueryChange(query) ==
    Deliver(Message_QueryChange(query), FALSE, update_QueryChange(App, query))

SetSearch(query) ==
    Deliver(Message_SetSearch(query), FALSE, update_SetSearch(App, query))

TagSelected(tag) ==
    Deliver(Message_TagSelected(tag), FALSE, update_TagSelected(App, tag))

RemoveSearch(id) ==
    Deliver(Message_RemoveSearch(id), update_RemoveSearch(App, id).panicked,
            update_RemoveSearch(App, id).self)

\* The environment may raise any message: any text up to MaxLen, either
\* toggle position, any tag name, any index up to MaxHist.
Next ==
    \/ OnPressing
    \/ \E state \in BOOLEAN : OnChangingTheme(state)
    \/ \E query \in Strings : QueryChange(query)
    \/ \E query \in Strings : SetSearch(query)
    \/ \E tag \in TagNames : TagSelected(tag)
    \/ \E id \in 0..MaxHist : RemoveSearch(id)

Spec == Init /\ [][Next]_vars

-----------------------------------------------------------------------------
(* App::view: the parts of the widget tree that depend on the state or     *)
(* carry a message.                                                        *)

\* One history row: the text shown and the message of its remove button.
historial_text(query, id) ==
    [text |-> query, on_press |-> Message_RemoveSearch(id)]

\* Variant of show_historial: the rows are numbered from 1.
show_historial_oneBased(queries) ==
    [kind |-> "show_historial",
     rows |-> [i \in 1..Len(queries) |->
                  historial_text(trim(queries[i]), i)]]

\* queries.iter().enumerate(): row i of the column (1-based here) is entry
\* i of the list with the 0-based id i - 1.
show_historial(queries) ==
    [kind |-> "show_historial",
     rows |-> [i \in 1..Len(queries) |->
                  historial_text(trim(queries[i]), i - 1)]]

empty_message ==
    [kind |-> "empty_message", rows |-> <<>>]

\* Variant of submit_style: the query is tested as typed, not trimmed.
submit_style_raw(self) ==
    IF is_empty(self.inputs.query) THEN "Secondary" ELSE "Principal"

\* The style of the submit button.
submit_style(self) ==
    IF is_empty(trim(self.inputs.query)) THEN "Secondary" ELSE "Principal"

view(self) ==
    [tags |-> <<Message_TagSelected("overflow"),
                Message_TagSelected("exchange"),
                Message_TagSelected("geeks")>>,
     text_input |-> self.inputs.query,
     submit_style |-> submit_style(self),
     submit_on_press |-> Message_OnPressing,
     historial_container |-> IF is_empty(self.searches)
                             THEN empty_message
                             ELSE show_historial(self.searches)]

-----------------------------------------------------------------------------
(* The UI loop: render, one message raised by a widget of that render,     *)
(* update, render again.                                                   *)

\* The messages the widgets of a rendered tree can raise: the submit
\* button, the tag buttons, the text input (any text typed) and the remove
\* button of every history row.  No widget raises OnChangingTheme or
\* SetSearch.
UI_messages(tree) ==
    {tree.submit_on_press}
        \cup {tree.tags[i] : i \in 1..Len(tree.tags)}
        \cup {Message_QueryChange(query) : query \in Strings}
        \cup {tree.historial_container.rows[i].on_press :
                 i \in 1..Len(tree.historial_container.rows)}

NextUI ==
    \/ \E m \in UI_messages(view(App)) :
          m.type = "OnPressing" /\ OnPressing
    \/ \E m \in UI_messages(view(App)) :
          m.type = "TagSelected" /\ TagSelected(m.tag)
    \/ \E m \in UI_messages(view(App)) :
          m.type = "QueryChange" /\ QueryChange(m.text)
    \/ \E m \in UI_messages(view(App)) :
          m.type = "RemoveSearch" /\ RemoveSearch(m.id)

SpecUI == Init /\ [][NextUI]_vars

\* A remove button of the render before the last update is pressed: the
\* message was built from the tree of last.pre and reaches update after
\* the state has moved on.
StaleRemoveSearch(m) ==
    /\ m.type = "RemoveSearch"
    /\ RemoveSearch(m.id)

NextBatch ==
    \/ NextUI
    \/ \E m \in UI_messages(view(last.pre)) : StaleRemoveSearch(m)

SpecBatch == Init /\ [][NextBatch]_vars

-----------------------------------------------------------------------------
(* The renderer resolving styles: it asks the theme for the appearance of  *)
(* a widget in its current status.                                         *)

\* Accent channels tried, and the accents: every triple of them and the
\* three accents the view gives its tag buttons.
ChannelSamples == {0, 150, 255}
TagAccents == {<<252, 187, 150>>, <<175, 197, 226>>, <<96, 177, 121>>}
Accents == (ChannelSamples \X ChannelSamples \X ChannelSamples) \cup TagAccents

ModernButton ==
    {ModernButton_Principal, ModernButton_Secondary, ModernButton_Text}
        \cup {ModernButton_Tag(color) : color \in Accents}

Draw_button(style, st) ==
    /\ status = "ready"
    /\ drawn' = [widget |-> "button", theme |-> theme, style |-> style,
                 status |-> st,
                 appearance |->
                    CASE st = "active" -> button_active(theme, style)
                      [] st = "hovered" -> button_hovered(theme, style)
                      [] st = "pressed" -> button_pressed(theme, style)]
    /\ UNCHANGED <<theme, toggler, inputs, searches, status, last>>

Draw_scrollable(st) ==
    /\ status = "ready"
    /\ drawn' = [widget |-> "scrollable", theme |-> theme,
                 style |-> ModernButton_Principal, status |-> st,
                 appearance |->
                    CASE st = "active" -> scrollable_active(theme)
                      [] st = "hovered" -> scrollable_hovered(theme)]
    /\ UNCHANGED <<theme, toggler, inputs, searches, status, last>>

NextStyle ==
    \/ \E state \in BOOLEAN : OnChangingTheme(state)
    \/ \E style \in ModernButton :
          \E st \in {"active", "hovered", "pressed"} : Draw_button(style, st)
    \/ \E st \in {"active", "hovered"} : Draw_scrollable(st)

SpecStyle == Init /\ [][NextStyle]_vars

-----------------------------------------------------------------------------
(* Properties                                                              *)

\* What the last message was, and the App record it was applied to.
Pre == last.pre
LastType == last.msg.type

\* A text that is empty or made of whitespace only.
Blank(s) == \A i \in 1..Len(s) : s[i] \in WhiteSpace

\* C1: in every reachable state no entry of the history is the empty
\* string or a whitespace-only string.
C1_HistoryNeverBlank ==
    \A i \in 1..Len(searches) : ~Blank(searches[i])

\* C1 witness: Submit was pressed on a whitespace-only query while the
\* history already held an entry, and on a query with surrounding space.
C1_Witness ==
    /\ LastType = "OnPressing"
    /\ Pre.inputs.query # <<>>
    /\ Blank(Pre.inputs.query)
    /\ Len(searches) > 0

\* C2: Submit on a query whose trimmed text is non-empty puts the trimmed
\* text in front of the old history, which keeps its order (one entry more,
\* duplicates kept), and leaves the query text as typed.
C2_SubmitPrepends ==
    (LastType = "OnPressing" /\ ~Blank(Pre.inputs.query)) =>
        /\ Len(searches) = Len(Pre.searches) + 1
        /\ searches[1] = trim(Pre.inputs.query)
        /\ ~Blank(<<searches[1][1]>>)
        /\ ~Blank(<<searches[1][Len(searches[1])]>>)
        /\ \A i \in 1..Len(Pre.searches) : searches[i + 1] = Pre.searches[i]
        /\ inputs = Pre.inputs
        /\ theme = Pre.theme
        /\ toggler = Pre.toggler
        /\ status = "ready"

\* C2 witness: the same text submitted twice gives two equal entries, and
\* the query, typed with a surrounding space, is still untrimmed.
C2_Witness ==
    /\ LastType = "OnPressing"
    /\ Len(searches) >= 2
    /\ searches[1] = searches[2]
    /\ inputs.query # trim(inputs.query)
    /\ searches[1] = trim(inputs.query)

\* C3: Submit on an empty or whitespace-only query changes nothing, for any
\* history, and the machine stays ready.
C3_BlankSubmitIgnored ==
    (LastType = "OnPressing" /\ Blank(Pre.inputs.query)) =>
        /\ App = Pre
        /\ status = "ready"

\* C3 witness: Submit was pressed on a whitespace-only (non-empty) query
\* with a history of two entries.
C3_Witness ==
    /\ LastType = "OnPressing"
    /\ Blank(Pre.inputs.query)
    /\ Len(Pre.inputs.query) > 0
    /\ Len(Pre.searches) = 2

\* C4: Remove search(index) with index < length deletes exactly the entry
\* at that position: one entry fewer, the entries before it stay, the
\* entries after it move down by one; query, theme and toggle unchanged.
C4_RemoveDeletesAtIndex ==
    (LastType = "RemoveSearch" /\ last.msg.id < Len(Pre.searches)) =>
        /\ Len(searches) = Len(Pre.searches) - 1
        /\ \A i \in 1..Len(searches) :
              searches[i] = IF i <= last.msg.id
                            THEN Pre.searches[i]
                            ELSE Pre.searches[i + 1]
        /\ inputs = Pre.inputs
        /\ theme = Pre.theme
        /\ toggler = Pre.toggler
        /\ status = "ready"

\* C4 witness: the first of three entries, all different from their
\* neighbours, was removed.
C4_Witness ==
    /\ LastType = "RemoveSearch"
    /\ last.msg.id = 0
    /\ Len(Pre.searches) = 3
    /\ Pre.searches[1] # Pre.searches[2]
    /\ Pre.searches[2] # Pre.searches[3]
    /\ Len(searches) = 2

\* C5: Remove search(index) with index >= length (any index on an empty
\* history included) panics: the process is gone, and history, query,
\* theme and toggle are as they were; nothing was removed.
C5_RemoveOutOfRangePanics ==
    (LastType = "RemoveSearch" /\ last.msg.id >= Len(Pre.searches)) =>
        /\ status = "panicked"
        /\ App = Pre
        /\ ~ENABLED Next

\* C5 witness: index 1 was removed from a history of one entry.
C5_Witness ==
    /\ LastType = "RemoveSearch"
    /\ last.msg.id = 1
    /\ Len(Pre.searches) = 1
    /\ status = "panicked"

\* C6, in every state: the theme is Light exactly when the toggle flag is
\* set; after Theme toggled(flag) the flag is flag, the theme is Light for
\* true and Dark for false, and query and history are as before.
C6_ToggleEffect ==
    /\ (theme = "Light") <=> toggler
    /\ LastType = "OnChangingTheme" =>
          /\ toggler = last.msg.state
          /\ theme = (IF last.msg.state THEN "Light" ELSE "Dark")
          /\ inputs = Pre.inputs
          /\ searches = Pre.searches
          /\ status = "ready"

\* C6, over two steps: Theme toggled(false) right after Theme toggled(true)
\* gives the Dark theme, whose palette is the initial one.
C6_RoundTrip ==
    (/\ last.msg = Message_OnChangingTheme(TRUE)
     /\ last'.msg = Message_OnChangingTheme(FALSE)) =>
        /\ theme' = "Dark"
        /\ palette(theme') = palette(App_new.theme)
        /\ palette(theme') # palette(theme)

\* C6: Theme toggled(flag) sets flag and theme together, leaves query and
\* history alone, keeps theme = Light <=> flag in every reachable state,
\* and toggled(true) then toggled(false) restores the initial Dark palette.
C6_ThemeToggle == [](C6_ToggleEffect) /\ [][C6_RoundTrip]_vars

\* C6 witness: Theme toggled(false) was applied to a Light state with a
\* query and a history, and the palette is the initial one again.
C6_Witness ==
    /\ last.msg = Message_OnChangingTheme(FALSE)
    /\ Pre.theme = "Light"
    /\ Pre.toggler
    /\ Len(searches) > 0
    /\ inputs.query # <<>>
    /\ palette(theme) = palette(App_new.theme)

\* C7: theme and toggle flag change only through Theme toggled: Submit,
\* Query changed, Set search, Tag selected and Remove search leave both as
\* they were.
C7_ThemeFrame ==
    LastType \in {"OnPressing", "QueryChange", "SetSearch", "TagSelected",
                  "RemoveSearch"} =>
        /\ theme = Pre.theme
        /\ toggler = Pre.toggler

\* C7 witness: Query changed was applied under the Light theme.
C7_Witness ==
    /\ LastType = "QueryChange"
    /\ Pre.theme = "Light"
    /\ Pre.toggler
    /\ inputs.query # Pre.inputs.query

\* C8: Query changed(text) and Set search(text) give the same successor:
\* the query is text verbatim, history, theme and toggle flag are as
\* before; and whichever of the two was applied, the other one gives the
\* same App from the same state and text.
C8_QueryChangeEqualsSetSearch ==
    /\ LastType \in {"QueryChange", "SetSearch"} =>
          /\ inputs.query = last.msg.text
          /\ inputs.enabled = Pre.inputs.enabled
          /\ searches = Pre.searches
          /\ theme = Pre.theme
          /\ toggler = Pre.toggler
          /\ status = "ready"
    /\ LastType \in {"QueryChange", "SetSearch"} =>
          /\ App = update_QueryChange(Pre, last.msg.text)
          /\ App = update_SetSearch(Pre, last.msg.text)

\* C8 witness: Set search stored a text with a leading space over a
\* different query, with a history present.
C8_Witness ==
    /\ LastType = "SetSearch"
    /\ Len(last.msg.text) > 1
    /\ last.msg.text[1] \in WhiteSpace
    /\ inputs.query = last.msg.text
    /\ Pre.inputs.query # last.msg.text
    /\ Len(searches) > 0

\* C9: Tag selected(name) changes nothing: theme, toggle flag, query and
\* history are what they were, for every tag name.
C9_TagSelectedNoChange ==
    LastType = "TagSelected" =>
        /\ App = Pre
        /\ status = "ready"

\* C9 witness: a tag was selected with a query typed, a history present
\* and the Light theme on.
C9_Witness ==
    /\ LastType = "TagSelected"
    /\ last.msg.tag = "geeks"
    /\ inputs.query # <<>>
    /\ Len(searches) > 0
    /\ theme = "Light"

\* C10: the view shows the empty-history placeholder exactly when the
\* history is empty; otherwise one row per entry in the history's order,
\* the row at position i carrying Remove search(i).
C10_ViewShowsHistory ==
    LET h == view(App).historial_container IN
    /\ (h.kind = "empty_message") <=> (Len(searches) = 0)
    /\ (h.kind = "show_historial") <=> (Len(searches) > 0)
    /\ Len(h.rows) = Len(searches)
    /\ \A i \in 1..Len(searches) :
          /\ h.rows[i].text = searches[i]
          /\ h.rows[i].on_press.type = "RemoveSearch"
          /\ h.rows[i].on_press.id = i - 1

\* C10 witness: a history of three entries, neighbours different, is
\* rendered.
C10_Witness ==
    /\ Len(searches) = 3
    /\ searches[1] # searches[2]
    /\ searches[2] # searches[3]
    /\ view(App).historial_container.kind = "show_historial"

\* C11 as stated: the submit button is Secondary when the query is empty
\* and Principal when it is non-empty, whitespace-only queries included.
C11_SubmitStyleByRawQuery ==
    /\ inputs.query = <<>> => view(App).submit_style = "Secondary"
    /\ inputs.query # <<>> => view(App).submit_style = "Principal"

\* C11 amended: the submit button is Secondary when the trimmed query is
\* empty (an empty or whitespace-only query) and Principal when the trimmed
\* query is non-empty.
C11_SubmitStyleByTrimmedQuery ==
    /\ Blank(inputs.query) => view(App).submit_style = "Secondary"
    /\ ~Blank(inputs.query) => view(App).submit_style = "Principal"

\* C11 witness: a whitespace-only, non-empty query is rendered and the
\* submit button is Secondary.
C11_Witness ==
    /\ inputs.query # <<>>
    /\ Blank(inputs.query)
    /\ view(App).submit_style = "Secondary"

\* C12 as stated: there is no terminal state; after any sequence of
\* messages the machine is ready and can accept a message of every kind.
C12_NoTerminalState ==
    /\ status = "ready"
    /\ ENABLED OnChangingTheme(TRUE)
    /\ ENABLED QueryChange(<<>>)
    /\ ENABLED SetSearch(<<>>)
    /\ ENABLED TagSelected("geeks")
    /\ ENABLED RemoveSearch(0)

\* A colour given by channels out of 255 and a fully opaque alpha.
Opaque255(r, g, b) ==
    [r |-> Frac(r, 255), g |-> Frac(g, 255), b |-> Frac(b, 255),
     a |-> <<1, 1>>]

\* A colour with r, g and b at seven tenths and the alpha as it is.
SevenTenths(c) ==
    [r |-> Frac(7 * c.r[1], 10 * c.r[2]),
     g |-> Frac(7 * c.g[1], 10 * c.g[2]),
     b |-> Frac(7 * c.b[1], 10 * c.b[2]),
     a |-> c.a]

\* C13: the active background of button style Tag(accent) is the accent
\* over 255 with an opaque alpha, whatever the theme: the Dark and the
\* Light theme resolve the same background.
C13_TagIgnoresTheme ==
    (drawn.widget = "button" /\ drawn.status = "active"
        /\ drawn.style.variant = "Tag") =>
        LET c == drawn.style.color IN
        /\ drawn.appearance.has_background
        /\ drawn.appearance.background = Opaque255(c[1], c[2], c[3])
        /\ button_active("Dark", drawn.style).background
              = button_active("Light", drawn.style).background

\* C13 witness: a Tag button with the accent of the first tag of the view
\* was resolved under the Light theme, whose palette tag colour differs
\* from the Dark one's.
C13_Witness ==
    /\ drawn.widget = "button"
    /\ drawn.status = "active"
    /\ drawn.theme = "Light"
    /\ drawn.style = ModernButton_Tag(<<252, 187, 150>>)
    /\ palette("Dark").buttons.tag # palette("Light").buttons.tag

\* The pressed appearance that darkens the active appearance `base`.
PressedFrom(base, pressed) ==
    /\ pressed.has_background = base.has_background
    /\ pressed.background = SevenTenths(base.background)
    /\ pressed.text_color = SevenTenths(base.text_color)
    /\ pressed.background.a = base.background.a
    /\ pressed.text_color.a = base.text_color.a
    /\ pressed.border_radius = 100
    /\ pressed.border_radius = base.border_radius
    /\ pressed.border_width = base.border_width
    /\ pressed.border_color = base.border_color

\* C14 as stated: for every theme and every button variant the pressed
\* appearance is that same variant's active appearance with r, g and b of
\* background and text colour multiplied by 0.7, the rest unchanged.
C14_PressedDarkensOwnActive ==
    (drawn.widget = "button" /\ drawn.status = "pressed") =>
        PressedFrom(button_active(drawn.theme, drawn.style), drawn.appearance)

\* C14 amended: for Principal, Text and Tag the pressed appearance is the
\* variant's own active appearance darkened by 0.7; for Secondary it is
\* the Principal variant's active appearance darkened by 0.7; alpha,
\* border radius (100), border width and border colour are unchanged.
C14_PressedDarkensActive ==
    (drawn.widget = "button" /\ drawn.status = "pressed") =>
        PressedFrom(
            IF drawn.style.variant = "Secondary"
            THEN button_active(drawn.theme, ModernButton_Principal)
            ELSE button_active(drawn.theme, drawn.style),
            drawn.appearance)

\* C14 witness: a pressed Secondary button was resolved under the Dark
\* theme, where Secondary's and Principal's active appearances differ.
C14_Witness ==
    /\ drawn.widget = "button"
    /\ drawn.status = "pressed"
    /\ drawn.theme = "Dark"
    /\ drawn.style = ModernButton_Secondary
    /\ button_active("Dark", ModernButton_Secondary)
          # button_active("Dark", ModernButton_Principal)

\* Radii and border widths of two scrollbar appearances are the same.
SameScrollbarGeometry(x, y) ==
    /\ x.border_radius = y.border_radius
    /\ x.border_width = y.border_width
    /\ x.scroller.border_radius = y.scroller.border_radius
    /\ x.scroller.border_width = y.scroller.border_width

\* C15 as stated: the hovered scrollable is the active one with track and
\* thumb colours exchanged, radii and border widths identical.
C15_HoveredSwapsTrackAndThumb ==
    (drawn.widget = "scrollable" /\ drawn.status = "hovered") =>
        LET active == scrollable_active(drawn.theme) IN
        /\ drawn.appearance.background = active.scroller.color
        /\ drawn.appearance.scroller.color = active.background
        /\ SameScrollbarGeometry(drawn.appearance, active)

\* C15 amended: the hovered track colour equals the active thumb colour;
\* the hovered thumb colour is the theme's principal button colour, which
\* is not the active track colour (the secondary button colour); radii
\* and border widths are identical.
C15_HoveredTrackIsActiveThumb ==
    (drawn.widget = "scrollable" /\ drawn.status = "hovered") =>
        LET active == scrollable_active(drawn.theme)
            p == palette(drawn.theme).buttons.principal
        IN
        /\ drawn.appearance.background = active.scroller.color
        /\ drawn.appearance.scroller.color
              = [Opaque255(p[1], p[2], p[3]) EXCEPT !.a = Frac(p[4], 100)]
        /\ drawn.appearance.scroller.color # active.background
        /\ SameScrollbarGeometry(drawn.appearance, active)

\* C15 witness: the hovered scrollable was resolved under the Light theme.
C15_Witness ==
    /\ drawn.widget = "scrollable"
    /\ drawn.status = "hovered"
    /\ drawn.theme = "Light"
    /\ theme = "Light"

\* C16: in the UI loop every Remove search message a widget can raise has
\* an index below the history length, every one consumed had, and update
\* never panics.
C16_UILoopNeverPanics ==
    /\ status = "ready"
    /\ \A m \in UI_messages(view(App)) :
          m.type = "RemoveSearch" => m.id < Len(searches)
    /\ LastType = "RemoveSearch" => last.msg.id < Len(Pre.searches)

\* C16 witness: the remove button of the last of three rows was pressed.
C16_Witness ==
    /\ LastType = "RemoveSearch"
    /\ last.msg.id = 2
    /\ Len(Pre.searches) = 3
    /\ Len(searches) = 2
    /\ status = "ready"

\* C16, the stale message: update panicked on a Remove search message that
\* a row of the earlier render carried and no row of the current one does.
C16_StaleRemovePanicked ==
    /\ status = "panicked"
    /\ LastType = "RemoveSearch"
    /\ last.msg \notin UI_messages(view(Pre))
    /\ last.msg.id >= Len(Pre.searches)

\* C16, the stale message: never reached.  It fails under SpecBatch, where
\* a remove button of the earlier render can still be pressed.
C16_NoStalePanic == ~C16_StaleRemovePanicked

\* C16, only if: whenever update has panicked, the message was one no
\* widget of the state it was applied to could raise.
C16_PanicOnlyIfStale ==
    status = "panicked" => C16_StaleRemovePanicked

====
